---- MODULE Spec2Model ----
(***************************************************************************)
(* Model of the bounding-box controller of bboxy                           *)
(* (src/app/components/Map.tsx): the drag-to-rectangle state machine, the  *)
(* coordinate formatting, and the URL-fragment synchronisation.            *)
(*                                                                         *)
(* Numbers are decimals carried as integers ("ticks") with one decimal     *)
(* digit more than formatCoordinate retains, so that rounding to           *)
(* maximumFractionDigits is observable.  Strings (the URL fragment, the    *)
(* displayed text) are sequences of one-character strings over the         *)
(* alphabet 0-9 - . , a b c, on which Number() is the decimal-literal      *)
(* grammar below.  Signed zero is not tracked in stored numbers, and the   *)
(* numbers are finite.                                                     *)
(*                                                                         *)
(* Every handler runs atomically on the state of the latest render, with   *)
(* the effect that re-renders the overlay when boundingBox changes.        *)
(* lastEvent and hashWrittenBy record history for the properties.          *)
(***************************************************************************)
EXTENDS Integers, Sequences, FiniteSets, TLC

VARIABLES activeTool, boundingBox, isDrawing, fitToBoundsNextRender,
          mapStyle, hash, mapRef, overlay,
          lastEvent, hashWrittenBy

vars == <<activeTool, boundingBox, isDrawing, fitToBoundsNextRender,
          mapStyle, hash, mapRef, overlay,
          lastEvent, hashWrittenBy>>

\* The program state proper (lastEvent and hashWrittenBy only record history).
progVars == <<activeTool, boundingBox, isDrawing, fitToBoundsNextRender,
              mapStyle, hash, mapRef, overlay>>

----------------------------------------------------------------------------
\* Numbers

maximumFractionDigits == 6

RECURSIVE Pow10(_)
Pow10(n) == IF n = 0 THEN 1 ELSE 10 * Pow10(n - 1)

\* Ticks per unit: one digit finer than the formatter's precision.
Scale == Pow10(maximumFractionDigits + 1)

\* Ticks per unit of the last digit the formatter keeps.
TicksPerUlp == Scale \div Pow10(maximumFractionDigits)

Deg(n) == n * Scale

Abs(x) == IF x < 0 THEN -x ELSE x

MathMin(a, b) == IF a < b THEN a ELSE b

MathMax(a, b) == IF a > b THEN a ELSE b

NULL == <<>>

----------------------------------------------------------------------------
\* Strings as sequences of characters

DigitChars == <<"0", "1", "2", "3", "4", "5", "6", "7", "8", "9">>

IsDigit(c) == \E i \in 1..10 : DigitChars[i] = c

DigitVal(c) == (CHOOSE i \in 1..10 : DigitChars[i] = c) - 1

RECURSIVE NatToString(_)
NatToString(n) ==
  IF n < 10 THEN <<DigitChars[n + 1]>>
  ELSE NatToString(n \div 10) \o <<DigitChars[(n % 10) + 1]>>

\* n written with exactly w digits (leading zeros)
RECURSIVE PadDigits(_, _)
PadDigits(n, w) ==
  IF w = 0 THEN <<>>
  ELSE PadDigits(n \div 10, w - 1) \o <<DigitChars[(n % 10) + 1]>>

RECURSIVE StripTrailingZeros(_)
StripTrailingZeros(s) ==
  IF s # <<>> /\ s[Len(s)] = "0" THEN StripTrailingZeros(SubSeq(s, 1, Len(s) - 1))
  ELSE s

\* Array.prototype.join
RECURSIVE Join(_, _)
Join(parts, sep) ==
  IF parts = <<>> THEN <<>>
  ELSE IF Len(parts) = 1 THEN parts[1]
  ELSE parts[1] \o sep \o Join(Tail(parts), sep)

\* String.prototype.split(',') : always at least one part
RECURSIVE SplitFrom(_, _, _, _)
SplitFrom(s, sep, i, part) ==
  IF i > Len(s) THEN <<part>>
  ELSE IF s[i] = sep THEN <<part>> \o SplitFrom(s, sep, i + 1, <<>>)
  ELSE SplitFrom(s, sep, i + 1, Append(part, s[i]))

Split(s, sep) == SplitFrom(s, sep, 1, <<>>)

----------------------------------------------------------------------------
\* Number(string) on the model's alphabet: "" is 0; an optional sign
\* followed by digits[.digits] or .digits is that decimal; anything else NaN.

NaN == [isNaN |-> TRUE, val |-> 0]

Num(v) == [isNaN |-> FALSE, val |-> v]

RECURSIVE DigitsToNat(_)
DigitsToNat(s) ==
  IF s = <<>> THEN 0 ELSE 10 * DigitsToNat(SubSeq(s, 1, Len(s) - 1)) + DigitVal(s[Len(s)])

\* value in ticks of the fraction digits s (digits finer than a tick are dropped)
FractionTicks(s) ==
  LET w == maximumFractionDigits + 1
      kept == IF Len(s) > w THEN SubSeq(s, 1, w) ELSE s
  IN DigitsToNat(kept) * Pow10(w - Len(kept))

UnsignedDecimal(s) ==
  LET dots == {i \in 1..Len(s) : s[i] = "."}
  IN IF s = <<>> \/ \E i \in 1..Len(s) : ~IsDigit(s[i]) /\ s[i] # "." THEN NaN
     ELSE IF dots = {} THEN Num(DigitsToNat(s) * Scale)
     ELSE IF Cardinality(dots) > 1 \/ Len(s) = 1 THEN NaN
     ELSE LET d == CHOOSE i \in dots : TRUE
              ip == SubSeq(s, 1, d - 1)
              fp == SubSeq(s, d + 1, Len(s))
          IN Num(DigitsToNat(ip) * Scale + FractionTicks(fp))

Number(s) ==
  IF s = <<>> THEN Num(0)
  ELSE IF s[1] = "-" THEN
         LET u == UnsignedDecimal(Tail(s)) IN IF u.isNaN THEN NaN ELSE Num(-u.val)
  ELSE IF s[1] = "+" THEN UnsignedDecimal(Tail(s))
  ELSE UnsignedDecimal(s)

----------------------------------------------------------------------------
\* formatCoordinate: Intl.NumberFormat('en-US', {minimumFractionDigits: 0,
\* maximumFractionDigits: 6, useGrouping: false}); rounding is half-expand.

RoundHalfExpand(coord) ==
  LET q == (Abs(coord) + TicksPerUlp \div 2) \div TicksPerUlp
  IN IF coord < 0 THEN -q ELSE q

\* Mutant: digits beyond the sixth are cut off instead of rounded.
formatCoordinate_truncates(coord) ==
  LET unit == Pow10(maximumFractionDigits)
      r == Abs(coord) \div TicksPerUlp
      frac == StripTrailingZeros(PadDigits(r % unit, maximumFractionDigits))
  IN (IF coord < 0 THEN <<"-">> ELSE <<>>)
       \o NatToString(r \div unit)
       \o (IF frac = <<>> THEN <<>> ELSE <<".">> \o frac)

formatCoordinate(coord) ==
  LET r == Abs(RoundHalfExpand(coord))
      unit == Pow10(maximumFractionDigits)
      frac == StripTrailingZeros(PadDigits(r % unit, maximumFractionDigits))
  IN (IF coord < 0 THEN <<"-">> ELSE <<>>)
       \o NatToString(r \div unit)
       \o (IF frac = <<>> THEN <<>> ELSE <<".">> \o frac)

----------------------------------------------------------------------------
\* Inputs of the model

\* Pointer coordinates (lon, lat) delivered by the map: the spec's example
\* corners and one coordinate with a seventh decimal digit.
Points ==
  { <<Deg(151), Deg(-33)>>,
    <<Deg(150), Deg(-34)>>,
    <<Deg(150) + 7, Deg(-34) + 5>> }

Frag_example == <<"-","1","0", ",", "2","0", ",", "-","5", ",", "2","5">>

Frag_abc == <<"a","b","c", ",", "1", ",", "2", ",", "3">>

Frag_emptyComponent == <<"1", ",", ",", "2", ",", "3">>

Frag_three == <<"1", ",", "2", ",", "3">>

Frag_reversed == <<"5", ",", "6", ",", "1",".","5", ",", "-","2">>

\* what a drag between (151,-33) and (150.0000007,-33.9999995) writes
Frag_shared ==
  <<"1","5","0",".","0","0","0","0","0","1", ",", "-","3","4", ",",
    "1","5","1", ",", "-","3","3">>

\* Fragments the location can be navigated to: absent, hand-written ones, and
\* one this program wrote for a drag (a shared link).
Fragments ==
  { <<>>, Frag_example, Frag_abc, Frag_emptyComponent, Frag_three, Frag_reversed,
    Frag_shared }

Keys == {"r", "h", "s", "x"}

ModifierKeys == {"metaKey", "altKey", "ctrlKey", "shiftKey"}

\* Modifier flags of a key event: none held, each one alone, all together.
ModifierStates ==
  {[m \in ModifierKeys |-> FALSE], [m \in ModifierKeys |-> TRUE]}
    \cup {[m \in ModifierKeys |-> m = held] : held \in ModifierKeys}

----------------------------------------------------------------------------
\* State

EmptyBox == [start |-> NULL, end |-> NULL]

EmptyFeatureCollection == <<>>

\* lastEvent: the event handled last (ev), its payload (arg: the pointer
\* coordinate, the modifier flags of a key event, or the bounds passed to
\* fitBounds), the key of a key event, the branch the handler took, and whether
\* it repeated an event still in effect (repeat): a hashchange that handled the
\* same fragment as the handler just before it, or a pointer-down that started
\* a drag while a drag was in progress.
Event(ev, arg, key, branch) ==
  [ev |-> ev, arg |-> arg, key |-> key, branch |-> branch, repeat |-> FALSE]

\* Props of MapGL derived from activeTool on each render
cursorFor(tool) == IF tool = "rectangle" THEN "crosshair" ELSE "grab"

dragPanFor(tool) == tool = "hand"

cursor == cursorFor(activeTool)

dragPan == dragPanFor(activeTool)

----------------------------------------------------------------------------
\* renderBoundingBox(box): the overlay after the call

\* ov is the map's side of the overlay: whether getSource('bbox-source') finds
\* the source, the data the source holds, and the ids passed to addSource and
\* to addLayer so far. ref tells whether mapRef.current is set.

\* Mutant: the source and the layers are added without asking getSource.
renderBoundingBox_alwaysAdds(box, ov, ref) ==
  IF box.start = NULL \/ box.end = NULL
  THEN IF ref /\ ov.source THEN [ov EXCEPT !.data = EmptyFeatureCollection] ELSE ov
  ELSE LET lon1 == box.start[1]
           lat1 == box.start[2]
           lon2 == box.end[1]
           lat2 == box.end[2]
           coordinates == << <<lon1, lat1>>, <<lon2, lat1>>, <<lon2, lat2>>,
                             <<lon1, lat2>>, <<lon1, lat1>> >>
       IN IF ref
          THEN [source |-> TRUE,
                data |-> coordinates,
                addSource |-> Append(ov.addSource, "bbox-source"),
                addLayer |-> ov.addLayer \o <<"bbox-fill", "bbox-outline">>]
          ELSE ov

renderBoundingBox(box, ov, ref) ==
  IF box.start = NULL \/ box.end = NULL
  THEN IF ref /\ ov.source THEN [ov EXCEPT !.data = EmptyFeatureCollection] ELSE ov
  ELSE LET lon1 == box.start[1]
           lat1 == box.start[2]
           lon2 == box.end[1]
           lat2 == box.end[2]
           coordinates == << <<lon1, lat1>>, <<lon2, lat1>>, <<lon2, lat2>>,
                             <<lon1, lat2>>, <<lon1, lat1>> >>
       IN IF ref
          THEN IF ov.source
               THEN [ov EXCEPT !.data = coordinates]
               ELSE [source |-> TRUE,
                     data |-> coordinates,
                     addSource |-> Append(ov.addSource, "bbox-source"),
                     addLayer |-> ov.addLayer \o <<"bbox-fill", "bbox-outline">>]
          ELSE ov

----------------------------------------------------------------------------
\* handleHashChange: what it makes of the fragment h, given the current box
\* and flag

\* Number of the i-th element of parts; a missing element is undefined, which
\* isNaN() reports as NaN.
component(parts, i) == IF i <= Len(parts) THEN Number(parts[i]) ELSE NaN

\* const [lon1, lat1, lon2, lat2] = hash.split(',').map(Number)
hashComponents(h) ==
  LET parts == Split(h, ",")
  IN <<component(parts, 1), component(parts, 2), component(parts, 3), component(parts, 4)>>

\* hashComponents, tabulated once for the fragments of the model
ParsedFragments == [h \in Fragments |-> hashComponents(h)]

components(h) == IF h \in DOMAIN ParsedFragments THEN ParsedFragments[h] ELSE hashComponents(h)

\* The numbers a box of the model can hold: pointer coordinates and the
\* numbers of the fragments.
Coordinates ==
  {p[i] : p \in Points, i \in 1..2}
    \cup {ParsedFragments[h][i].val : h \in Fragments, i \in 1..4}

\* formatCoordinate, tabulated once for the numbers of the model
FormattedCoordinates == [c \in Coordinates |-> formatCoordinate(c)]

formatted(c) ==
  IF c \in DOMAIN FormattedCoordinates THEN FormattedCoordinates[c] ELSE formatCoordinate(c)

----------------------------------------------------------------------------
\* formatBoundingBox

\* Mutant: the corners are emitted in drag order, not southwest-first.
formatBoundingBox_dragOrder(start, end, separator, order) ==
  IF start = NULL \/ end = NULL THEN <<>>
  ELSE IF order = "lonLat"
       THEN Join(<<formatted(start[1]), formatted(start[2]),
                   formatted(end[1]), formatted(end[2])>>, separator)
       ELSE Join(<<formatted(start[2]), formatted(start[1]),
                   formatted(end[2]), formatted(end[1])>>, separator)

\* Mutant: the order option is not looked at.
formatBoundingBox_lonLatOnly(start, end, separator, order) ==
  IF start = NULL \/ end = NULL THEN <<>>
  ELSE Join(<<formatted(MathMin(start[1], end[1])), formatted(MathMin(start[2], end[2])),
              formatted(MathMax(start[1], end[1])), formatted(MathMax(start[2], end[2]))>>,
            separator)

formatBoundingBox(start, end, separator, order) ==
  IF start = NULL \/ end = NULL THEN <<>>
  ELSE LET lon1 == start[1]
           lat1 == start[2]
           lon2 == end[1]
           lat2 == end[2]
           minLon == MathMin(lon1, lon2)
           minLat == MathMin(lat1, lat2)
           maxLon == MathMax(lon1, lon2)
           maxLat == MathMax(lat1, lat2)
       IN IF order = "lonLat"
          THEN Join(<<formatted(minLon), formatted(minLat),
                      formatted(maxLon), formatted(maxLat)>>, separator)
          ELSE Join(<<formatted(minLat), formatted(minLon),
                      formatted(maxLat), formatted(maxLon)>>, separator)

\* formatBoundingBox(start, end) with the default options
formatBoundingBoxDefault(start, end) == formatBoundingBox(start, end, <<",">>, "lonLat")


\* getFormattedBoundingBox without the placeholder text
displayed == formatBoundingBoxDefault(boundingBox.start, boundingBox.end)

\* Mutant: the components are read as lat,lon pairs.
hashChangeResult_latLon(h, box, fit) ==
  LET c == components(h)
  IN IF h # <<>> /\ ~c[1].isNaN /\ ~c[2].isNaN /\ ~c[3].isNaN /\ ~c[4].isNaN
     THEN [accepted |-> TRUE,
           boundingBox |-> [start |-> <<c[2].val, c[1].val>>,
                            end |-> <<c[4].val, c[3].val>>],
           fit |-> TRUE]
     ELSE [accepted |-> FALSE, boundingBox |-> box, fit |-> fit]

\* Mutant: a fragment naming the box already held clears it.
hashChangeResult_toggles(h, box, fit) ==
  LET c == components(h)
      parsed == [start |-> <<c[1].val, c[2].val>>, end |-> <<c[3].val, c[4].val>>]
  IN IF h # <<>> /\ ~c[1].isNaN /\ ~c[2].isNaN /\ ~c[3].isNaN /\ ~c[4].isNaN
     THEN [accepted |-> TRUE,
           boundingBox |-> IF box = parsed THEN EmptyBox ELSE parsed,
           fit |-> TRUE]
     ELSE [accepted |-> FALSE, boundingBox |-> box, fit |-> fit]

\* The state handleHashChange leaves: accepted tells whether the setters ran.
hashChangeResult(h, box, fit) ==
  LET c == components(h)
  IN IF h # <<>> /\ ~c[1].isNaN /\ ~c[2].isNaN /\ ~c[3].isNaN /\ ~c[4].isNaN
     THEN [accepted |-> TRUE,
           boundingBox |-> [start |-> <<c[1].val, c[2].val>>,
                            end |-> <<c[3].val, c[4].val>>],
           fit |-> TRUE]
     ELSE [accepted |-> FALSE, boundingBox |-> box, fit |-> fit]

\* A hashchange event; the handler reads window.location.hash, here h.
handleHashChange(h) ==
  LET r == hashChangeResult(h, boundingBox, fitToBoundsNextRender)
  IN /\ hash' = h
     /\ boundingBox' = r.boundingBox
     /\ fitToBoundsNextRender' = r.fit
     /\ overlay' = IF r.accepted
                   THEN renderBoundingBox(r.boundingBox, overlay, mapRef)
                   ELSE overlay
     /\ lastEvent' = [Event("hashchange", NULL, "",
                            IF r.accepted THEN "parsed" ELSE "ignored")
                        EXCEPT !.repeat = lastEvent.ev \in {"load", "hashchange"} /\ h = hash]
     /\ hashWrittenBy' = "navigation"
     /\ UNCHANGED <<activeTool, isDrawing, mapStyle, mapRef>>

\* The state after the component has mounted with fragment h in the location:
\* the initial useState values followed by the initial handleHashChange().
Init ==
  \E h \in Fragments :
    LET r == hashChangeResult(h, EmptyBox, FALSE)
    IN /\ activeTool = "hand"
       /\ boundingBox = r.boundingBox
       /\ isDrawing = FALSE
       /\ fitToBoundsNextRender = r.fit
       /\ mapStyle = "streets"
       /\ hash = h
       /\ mapRef = FALSE
       /\ overlay = [source |-> FALSE, data |-> EmptyFeatureCollection,
                     addSource |-> <<>>, addLayer |-> <<>>]
       /\ lastEvent = Event("load", NULL, "", IF r.accepted THEN "parsed" ELSE "ignored")
       /\ hashWrittenBy = "load"

----------------------------------------------------------------------------
\* Pointer handlers (mouse and touch events share them)

\* Mutant: the pointer coordinate is stored as end, with no start.
handleMouseDown_storesEnd(p) ==
  IF activeTool # "rectangle"
  THEN /\ lastEvent' = Event("pointerdown", p, "", "ignored")
       /\ UNCHANGED <<progVars, hashWrittenBy>>
  ELSE /\ boundingBox' = [start |-> NULL, end |-> p]
       /\ isDrawing' = TRUE
       /\ overlay' = renderBoundingBox(boundingBox', overlay, mapRef)
       /\ lastEvent' = [Event("pointerdown", p, "", "started")
                          EXCEPT !.repeat = isDrawing]
       /\ UNCHANGED <<activeTool, fitToBoundsNextRender, mapStyle, hash, mapRef,
                      hashWrittenBy>>

\* Mutant: a pointer-down during a drag keeps the start of that drag.
handleMouseDown_keepsStart(p) ==
  IF activeTool # "rectangle"
  THEN /\ lastEvent' = Event("pointerdown", p, "", "ignored")
       /\ UNCHANGED <<progVars, hashWrittenBy>>
  ELSE /\ boundingBox' = [start |-> IF isDrawing THEN boundingBox.start ELSE p,
                          end |-> NULL]
       /\ isDrawing' = TRUE
       /\ overlay' = renderBoundingBox(boundingBox', overlay, mapRef)
       /\ lastEvent' = [Event("pointerdown", p, "", "started")
                          EXCEPT !.repeat = isDrawing]
       /\ UNCHANGED <<activeTool, fitToBoundsNextRender, mapStyle, hash, mapRef,
                      hashWrittenBy>>

handleMouseDown(p) ==
  IF activeTool # "rectangle"
  THEN /\ lastEvent' = Event("pointerdown", p, "", "ignored")
       /\ UNCHANGED <<progVars, hashWrittenBy>>
  ELSE /\ boundingBox' = [start |-> p, end |-> NULL]
       /\ isDrawing' = TRUE
       /\ overlay' = renderBoundingBox(boundingBox', overlay, mapRef)
       /\ lastEvent' = [Event("pointerdown", p, "", "started")
                          EXCEPT !.repeat = isDrawing]
       /\ UNCHANGED <<activeTool, fitToBoundsNextRender, mapStyle, hash, mapRef,
                      hashWrittenBy>>

\* Mutant: the active tool is not looked at.
handleMouseMove_anyTool(p) ==
  IF ~isDrawing \/ boundingBox.start = NULL
  THEN /\ lastEvent' = Event("pointermove", p, "", "ignored")
       /\ UNCHANGED <<progVars, hashWrittenBy>>
  ELSE /\ boundingBox' = [boundingBox EXCEPT !.end = p]
       /\ overlay' = renderBoundingBox(boundingBox', overlay, mapRef)
       /\ lastEvent' = Event("pointermove", p, "", "moved")
       /\ UNCHANGED <<activeTool, isDrawing, fitToBoundsNextRender, mapStyle, hash,
                      mapRef, hashWrittenBy>>

\* Mutant: isDrawing is not looked at.
handleMouseMove_withoutDrawingCheck(p) ==
  IF activeTool # "rectangle" \/ boundingBox.start = NULL
  THEN /\ lastEvent' = Event("pointermove", p, "", "ignored")
       /\ UNCHANGED <<progVars, hashWrittenBy>>
  ELSE /\ boundingBox' = [boundingBox EXCEPT !.end = p]
       /\ overlay' = renderBoundingBox(boundingBox', overlay, mapRef)
       /\ lastEvent' = Event("pointermove", p, "", "moved")
       /\ UNCHANGED <<activeTool, isDrawing, fitToBoundsNextRender, mapStyle, hash,
                      mapRef, hashWrittenBy>>

handleMouseMove(p) ==
  IF activeTool # "rectangle" \/ ~isDrawing \/ boundingBox.start = NULL
  THEN /\ lastEvent' = Event("pointermove", p, "", "ignored")
       /\ UNCHANGED <<progVars, hashWrittenBy>>
  ELSE /\ boundingBox' = [boundingBox EXCEPT !.end = p]
       /\ overlay' = renderBoundingBox(boundingBox', overlay, mapRef)
       /\ lastEvent' = Event("pointermove", p, "", "moved")
       /\ UNCHANGED <<activeTool, isDrawing, fitToBoundsNextRender, mapStyle, hash,
                      mapRef, hashWrittenBy>>

\* updateURL(start, end): the fragment of the pushed URL
updateURL(start, end) == formatBoundingBoxDefault(start, end)

\* Mutant: the corners are compared as array references, never equal.
isBoundsEmpty_byReference(start, end) == FALSE

isBoundsEmpty(start, end) == start[1] = end[1] /\ start[2] = end[2]

\* Mutant: a degenerate drag clears the URL but keeps the box.
handleMouseUp_keepsBox(p) ==
  IF activeTool # "rectangle" \/ ~isDrawing \/ boundingBox.start = NULL
  THEN /\ lastEvent' = Event("pointerup", p, "", "ignored")
       /\ UNCHANGED <<progVars, hashWrittenBy>>
  ELSE /\ IF isBoundsEmpty(boundingBox.start, p)
          THEN /\ boundingBox' = [start |-> boundingBox.start, end |-> p]
               /\ hash' = updateURL(NULL, NULL)
               /\ UNCHANGED fitToBoundsNextRender
               /\ lastEvent' = Event("pointerup", p, "", "degenerate")
          ELSE /\ boundingBox' = [start |-> boundingBox.start, end |-> p]
               /\ hash' = updateURL(boundingBox.start, p)
               /\ fitToBoundsNextRender' = TRUE
               /\ lastEvent' = Event("pointerup", p, "", "completed")
       /\ isDrawing' = FALSE
       /\ activeTool' = "hand"
       /\ overlay' = renderBoundingBox(boundingBox', overlay, mapRef)
       /\ hashWrittenBy' = "pushState"
       /\ UNCHANGED <<mapStyle, mapRef>>

\* Mutant: the tool is not switched back after the drag.
handleMouseUp_keepsTool(p) ==
  IF activeTool # "rectangle" \/ ~isDrawing \/ boundingBox.start = NULL
  THEN /\ lastEvent' = Event("pointerup", p, "", "ignored")
       /\ UNCHANGED <<progVars, hashWrittenBy>>
  ELSE /\ IF isBoundsEmpty(boundingBox.start, p)
          THEN /\ boundingBox' = EmptyBox
               /\ hash' = updateURL(NULL, NULL)
               /\ UNCHANGED fitToBoundsNextRender
               /\ lastEvent' = Event("pointerup", p, "", "degenerate")
          ELSE /\ boundingBox' = [start |-> boundingBox.start, end |-> p]
               /\ hash' = updateURL(boundingBox.start, p)
               /\ fitToBoundsNextRender' = TRUE
               /\ lastEvent' = Event("pointerup", p, "", "completed")
       /\ isDrawing' = FALSE
       /\ overlay' = renderBoundingBox(boundingBox', overlay, mapRef)
       /\ hashWrittenBy' = "pushState"
       /\ UNCHANGED <<activeTool, mapStyle, mapRef>>

\* Mutant: the box is completed with the end the last pointer-move left.
handleMouseUp_keepsLastMove(p) ==
  IF activeTool # "rectangle" \/ ~isDrawing \/ boundingBox.start = NULL
  THEN /\ lastEvent' = Event("pointerup", p, "", "ignored")
       /\ UNCHANGED <<progVars, hashWrittenBy>>
  ELSE /\ IF isBoundsEmpty(boundingBox.start, p)
          THEN /\ boundingBox' = EmptyBox
               /\ hash' = updateURL(NULL, NULL)
               /\ UNCHANGED fitToBoundsNextRender
               /\ lastEvent' = Event("pointerup", p, "", "degenerate")
          ELSE /\ boundingBox' = [start |-> boundingBox.start,
                                  end |-> IF boundingBox.end # NULL
                                          THEN boundingBox.end ELSE p]
               /\ hash' = updateURL(boundingBox'.start, boundingBox'.end)
               /\ fitToBoundsNextRender' = TRUE
               /\ lastEvent' = Event("pointerup", p, "", "completed")
       /\ isDrawing' = FALSE
       /\ activeTool' = "hand"
       /\ overlay' = renderBoundingBox(boundingBox', overlay, mapRef)
       /\ hashWrittenBy' = "pushState"
       /\ UNCHANGED <<mapStyle, mapRef>>

handleMouseUp(p) ==
  IF activeTool # "rectangle" \/ ~isDrawing \/ boundingBox.start = NULL
  THEN /\ lastEvent' = Event("pointerup", p, "", "ignored")
       /\ UNCHANGED <<progVars, hashWrittenBy>>
  ELSE /\ IF isBoundsEmpty(boundingBox.start, p)
          THEN /\ boundingBox' = EmptyBox
               /\ hash' = updateURL(NULL, NULL)
               /\ UNCHANGED fitToBoundsNextRender
               /\ lastEvent' = Event("pointerup", p, "", "degenerate")
          ELSE /\ boundingBox' = [start |-> boundingBox.start, end |-> p]
               /\ hash' = updateURL(boundingBox.start, p)
               /\ fitToBoundsNextRender' = TRUE
               /\ lastEvent' = Event("pointerup", p, "", "completed")
       /\ isDrawing' = FALSE
       /\ activeTool' = "hand"
       /\ overlay' = renderBoundingBox(boundingBox', overlay, mapRef)
       /\ hashWrittenBy' = "pushState"
       /\ UNCHANGED <<mapStyle, mapRef>>

----------------------------------------------------------------------------
\* Keyboard shortcuts and the tool panel

\* Mutant: the shift key is not looked at.
noModifiers_withoutShift(e) == ~e.metaKey /\ ~e.altKey /\ ~e.ctrlKey

noModifiers(e) == ~e.metaKey /\ ~e.altKey /\ ~e.ctrlKey /\ ~e.shiftKey

handleKeyDown(key, e) ==
     /\ IF key = "r" /\ noModifiers(e)
        THEN activeTool' = "rectangle" /\ UNCHANGED mapStyle
        ELSE IF key = "h" /\ noModifiers(e)
        THEN activeTool' = "hand" /\ UNCHANGED mapStyle
        ELSE IF key = "s" /\ noModifiers(e)
        THEN /\ mapStyle' = (IF mapStyle = "streets" THEN "satellite" ELSE "streets")
             /\ UNCHANGED activeTool
        ELSE UNCHANGED <<activeTool, mapStyle>>
     /\ lastEvent' = Event("keydown", e, key, "")
     /\ UNCHANGED <<boundingBox, isDrawing, fitToBoundsNextRender, hash, mapRef,
                    overlay, hashWrittenBy>>

\* ToolButton onClick={() => setActiveTool(tool)}
selectTool(tool) ==
  /\ activeTool' = tool
  /\ lastEvent' = Event("toolbutton", NULL, "", tool)
  /\ UNCHANGED <<boundingBox, isDrawing, fitToBoundsNextRender, mapStyle, hash,
                 mapRef, overlay, hashWrittenBy>>

\* ToolButton onClick={() => setMapStyle(style)}
selectStyle(style) ==
  /\ mapStyle' = style
  /\ lastEvent' = Event("stylebutton", NULL, "", style)
  /\ UNCHANGED <<activeTool, boundingBox, isDrawing, fitToBoundsNextRender, hash,
                 mapRef, overlay, hashWrittenBy>>

----------------------------------------------------------------------------
\* Map events

\* The bounds passed to fitBounds: [[west, south], [east, north]]
fitBoundsArgument(box) ==
  << <<MathMin(box.start[1], box.end[1]), MathMin(box.start[2], box.end[2])>>,
     <<MathMax(box.start[1], box.end[1]), MathMax(box.start[2], box.end[2])>> >>

\* onRender: one render tick of the map
fitToBoundsIfRequested ==
  IF fitToBoundsNextRender /\ mapRef /\ boundingBox.start # NULL /\ boundingBox.end # NULL
  THEN /\ fitToBoundsNextRender' = FALSE
       /\ lastEvent' = Event("render", fitBoundsArgument(boundingBox), "", "fitBounds")
       /\ UNCHANGED <<activeTool, boundingBox, isDrawing, mapStyle, hash, mapRef,
                      overlay, hashWrittenBy>>
  ELSE /\ lastEvent' = Event("render", NULL, "", "idle")
       /\ UNCHANGED <<progVars, hashWrittenBy>>

\* onLoad: the map becomes available (mapRef.current is set) and the box
\* populated from the URL, if any, is rendered.
onLoad ==
  /\ ~mapRef
  /\ mapRef' = TRUE
  /\ overlay' = renderBoundingBox(boundingBox, overlay, TRUE)
  /\ lastEvent' = Event("mapload", NULL, "", "")
  /\ UNCHANGED <<activeTool, boundingBox, isDrawing, fitToBoundsNextRender, mapStyle,
                 hash, hashWrittenBy>>

----------------------------------------------------------------------------
\* Pointer events and render ticks are events of the map: it delivers them
\* once it is available.
PointerDown == mapRef /\ \E p \in Points : handleMouseDown(p)

PointerMove == mapRef /\ \E p \in Points : handleMouseMove(p)

PointerUp == mapRef /\ \E p \in Points : handleMouseUp(p)

KeyDown == \E key \in Keys, e \in ModifierStates : handleKeyDown(key, e)

ToolButtonClick == \E tool \in {"hand", "rectangle"} : selectTool(tool)

StyleButtonClick == \E style \in {"streets", "satellite"} : selectStyle(style)

HashChange == \E h \in Fragments : handleHashChange(h)

RenderTick == mapRef /\ fitToBoundsIfRequested

MapLoad == onLoad

Next ==
  \/ PointerDown
  \/ PointerMove
  \/ PointerUp
  \/ KeyDown
  \/ ToolButtonClick
  \/ StyleButtonClick
  \/ HashChange
  \/ RenderTick
  \/ MapLoad

Spec == Init /\ [][Next]_vars

----------------------------------------------------------------------------
\* formatBoundingBox as a function of its arguments: calls with any corners,
\* separator and order, on the component as mounted.

\* Values of options.separator
Separators == {<<",">>, <<" ">>, <<",", " ">>, <<>>}

\* Values of options.order
Orders == {"lonLat", "latLon"}

\* Values of the start and end arguments
CornerArguments == Points \cup {NULL}

\* formatBoundingBox(start, end, {separator, order})
formatBoundingBoxCall(start, end, separator, order) ==
  /\ lastEvent' = Event("formatBoundingBox",
                        [start |-> start, end |-> end, separator |-> separator,
                         order |-> order,
                         text |-> formatBoundingBox(start, end, separator, order)],
                        "", "options")
  /\ UNCHANGED <<progVars, hashWrittenBy>>

\* formatBoundingBox(start, end): the options are left out
formatBoundingBoxDefaultCall(start, end) ==
  /\ lastEvent' = Event("formatBoundingBox",
                        [start |-> start, end |-> end, separator |-> NULL,
                         order |-> "",
                         text |-> formatBoundingBoxDefault(start, end)],
                        "", "defaults")
  /\ UNCHANGED <<progVars, hashWrittenBy>>

FormatWithOptions ==
  \E start \in CornerArguments, end \in CornerArguments, separator \in Separators, order \in Orders :
    formatBoundingBoxCall(start, end, separator, order)

FormatWithDefaults ==
  \E start \in CornerArguments, end \in CornerArguments : formatBoundingBoxDefaultCall(start, end)

FormatNext ==
  \/ FormatWithOptions
  \/ FormatWithDefaults

FormatSpec == Init /\ [][FormatNext]_vars

----------------------------------------------------------------------------
\* Properties

\* The text of a box's corners in southwest/northeast order, lon before lat.
SouthWestNorthEastText(start, end) ==
  Join(<<formatted(MathMin(start[1], end[1])),
         formatted(MathMin(start[2], end[2])),
         formatted(MathMax(start[1], end[1])),
         formatted(MathMax(start[2], end[2]))>>, <<",">>)

\* A pointer-up arrives while a drag with the rectangle tool is in progress.
DragEnds ==
  /\ lastEvent'.ev = "pointerup"
  /\ activeTool = "rectangle"
  /\ isDrawing
  /\ boundingBox.start # NULL

\* The text is four numbers w,s,e,n with w <= e and s <= n.
FourOrderedNumbers(text) ==
  LET n == hashComponents(text)
  IN /\ Len(Split(text, ",")) = 4
     /\ \A i \in 1..4 : ~n[i].isNaN
     /\ n[1].val <= n[3].val
     /\ n[2].val <= n[4].val

Text_150_m34_151_m33 ==
  <<"1","5","0", ",", "-","3","4", ",", "1","5","1", ",", "-","3","3">>

\* C1: every drag with the rectangle tool from a start point to a different
\* end point writes to the URL fragment, and displays, the text
\* minLon,minLat,maxLon,maxLat of the two corners, whose numbers satisfy
\* minLon <= maxLon and minLat <= maxLat, whatever the drag direction; the drag
\* from (151,-33) to (150,-34) gives 150,-34,151,-33.
C1_DragWritesNormalizedBox ==
  [][ (DragEnds /\ lastEvent'.arg # boundingBox.start) =>
        /\ hashWrittenBy' = "pushState"
        /\ hash' = SouthWestNorthEastText(boundingBox.start, lastEvent'.arg)
        /\ formatBoundingBoxDefault(boundingBox'.start, boundingBox'.end) = hash'
        /\ FourOrderedNumbers(hash')
        /\ ( (boundingBox.start = <<Deg(151), Deg(-33)>>
                /\ lastEvent'.arg = <<Deg(150), Deg(-34)>>)
             => hash' = Text_150_m34_151_m33 ) ]_vars

\* C1 witness: the drag from (151,-33) to (150,-34) has ended.
C1_Witness ==
  /\ lastEvent.ev = "pointerup"
  /\ lastEvent.branch = "completed"
  /\ lastEvent.arg = <<Deg(150), Deg(-34)>>
  /\ boundingBox.start = <<Deg(151), Deg(-33)>>
  /\ hash = Text_150_m34_151_m33
  /\ displayed = Text_150_m34_151_m33

\* C2: a pointer-up handled while drawing with the rectangle tool, at the
\* coordinate boundingBox.start holds, leaves the box empty and writes the
\* empty fragment, whatever box and fragment there were.
C2_DegenerateDragEndsEmpty ==
  [][ (DragEnds /\ lastEvent'.arg = boundingBox.start) =>
        /\ boundingBox' = EmptyBox
        /\ hash' = <<>>
        /\ hashWrittenBy' = "pushState" ]_vars

\* C2 witness: a degenerate drag has ended, and emptied box and fragment.
C2_Witness ==
  /\ lastEvent.ev = "pointerup"
  /\ lastEvent.branch = "degenerate"
  /\ boundingBox = EmptyBox
  /\ hash = <<>>
  /\ hashWrittenBy = "pushState"

\* C3: when the pointer-up of a drag that started drawing arrives, the active
\* tool afterwards is hand, degenerate or not, whatever was handled in between.
C3_HandAfterDrag ==
  [][ (lastEvent'.ev = "pointerup" /\ isDrawing) => activeTool' = "hand" ]_vars

\* C3 witness: a drag was completed with the rectangle tool, which is now hand.
C3_Witness ==
  /\ lastEvent.ev = "pointerup"
  /\ lastEvent.branch \in {"completed", "degenerate"}
  /\ ~isDrawing
  /\ activeTool = "hand"

----------------------------------------------------------------------------
\* Fragments as the specification classifies them

\* The text is a number written out (not the empty text).
ValidNumberText(text) == text # <<>> /\ ~Number(text).isNaN

\* exactly four comma-separated numbers
FourNumbers(h) ==
  LET parts == Split(h, ",")
  IN Len(parts) = 4 /\ \A i \in 1..4 : ValidNumberText(parts[i])

\* a non-numeric component, an empty component, or fewer than four components
Malformed(h) ==
  LET parts == Split(h, ",")
  IN Len(parts) < 4 \/ \E i \in 1..Len(parts) : ~ValidNumberText(parts[i])

\* {start: [lon1, lat1], end: [lon2, lat2]} of the fragment lon1,lat1,lon2,lat2
BoxOfFragment(h) ==
  LET parts == Split(h, ",")
  IN [start |-> <<Number(parts[1]).val, Number(parts[2]).val>>,
      end |-> <<Number(parts[3]).val, Number(parts[4]).val>>]

Complete(box) == box.start # NULL /\ box.end # NULL

\* west, south, east, north of a complete box
Corners(box) ==
  <<MathMin(box.start[1], box.end[1]), MathMin(box.start[2], box.end[2]),
    MathMax(box.start[1], box.end[1]), MathMax(box.start[2], box.end[2])>>

\* C4 (as claimed): a fragment with a non-numeric component, an empty
\* component or fewer than four components leaves boundingBox and the
\* fit-to-bounds flag as they were, on load (empty box, no fit) and on every
\* hashchange event.
C4_MalformedIgnored ==
  /\ (lastEvent.ev = "load" /\ Malformed(hash))
       => (boundingBox = EmptyBox /\ ~fitToBoundsNextRender)
  /\ [][ (lastEvent'.ev = "hashchange" /\ Malformed(hash'))
           => (boundingBox' = boundingBox
                 /\ fitToBoundsNextRender' = fitToBoundsNextRender) ]_vars

\* the box just took the value it holds
BoxJustSet ==
  \/ lastEvent.ev \in {"load", "hashchange"} /\ lastEvent.branch = "parsed"
  \/ lastEvent.ev = "pointermove" /\ lastEvent.branch = "moved"
  \/ lastEvent.ev = "pointerup" /\ lastEvent.branch = "completed"

\* C5: formatting a complete box with formatBoundingBox (lonLat, comma) and
\* parsing the text as handleHashChange does yields a complete box whose
\* west, south, east, north each differ from the original's by no more than
\* half a unit of the sixth decimal place.
C5_RoundTrip ==
  (BoxJustSet /\ Complete(boundingBox)) =>
    LET text == formatBoundingBoxDefault(boundingBox.start, boundingBox.end)
        back == hashChangeResult(text, EmptyBox, FALSE)
    IN /\ back.accepted
       /\ Complete(back.boundingBox)
       /\ \A i \in 1..4 :
            2 * Abs(Corners(back.boundingBox)[i] - Corners(boundingBox)[i]) <= TicksPerUlp

\* C5 witness: a drawn box with a seventh decimal digit has been formatted
\* into the fragment, which no longer carries that digit.
C5_Witness ==
  /\ lastEvent.ev = "pointerup"
  /\ lastEvent.branch = "completed"
  /\ boundingBox = [start |-> <<Deg(151), Deg(-33)>>, end |-> <<Deg(150) + 7, Deg(-34) + 5>>]
  /\ hash = Frag_shared
  /\ hashChangeResult(hash, EmptyBox, FALSE).boundingBox
       = [start |-> <<Deg(150) + 10, Deg(-34)>>, end |-> <<Deg(151), Deg(-33)>>]

\* C6: on load and on every hashchange, a fragment of four comma-separated
\* numbers lon1,lat1,lon2,lat2 makes boundingBox {start: [lon1,lat1],
\* end: [lon2,lat2]} and requests a fit-to-bounds; the box is displayed
\* southwest-first, and a fitBounds command covers [west, east] x
\* [south, north] of the box; #-10,20,-5,25 displays -10,20,-5,25.
C6_InboundSync ==
  /\ (lastEvent.ev \in {"load", "hashchange"} /\ FourNumbers(hash)) =>
       /\ boundingBox = BoxOfFragment(hash)
       /\ fitToBoundsNextRender
       /\ displayed = SouthWestNorthEastText(boundingBox.start, boundingBox.end)
       /\ FourOrderedNumbers(displayed)
       /\ (hash = Frag_example => displayed = Frag_example)
  /\ (lastEvent.ev = "render" /\ lastEvent.branch = "fitBounds") =>
       /\ Complete(boundingBox)
       /\ lastEvent.arg = << <<Corners(boundingBox)[1], Corners(boundingBox)[2]>>,
                             <<Corners(boundingBox)[3], Corners(boundingBox)[4]>> >>

\* C6 witness: the page was opened at #-10,20,-5,25, shows -10,20,-5,25 and
\* has fitted longitude [-10,-5], latitude [20,25].
C6_Witness ==
  /\ hash = Frag_example
  /\ hashWrittenBy = "load"
  /\ displayed = Frag_example
  /\ lastEvent.ev = "render"
  /\ lastEvent.branch = "fitBounds"
  /\ lastEvent.arg = << <<Deg(-10), Deg(20)>>, <<Deg(-5), Deg(25)>> >>

\* C7 (as claimed): whenever a box becomes complete by a non-degenerate drag
\* end or a valid fragment parse the flag is set; the next render tick with
\* the map available issues one fitBounds command and clears the flag; a
\* render tick with the flag clear issues none.
C7_FitOneShot ==
  [][ /\ ( \/ (DragEnds /\ lastEvent'.arg # boundingBox.start)
           \/ (lastEvent'.ev = "hashchange" /\ FourNumbers(hash')) )
           => fitToBoundsNextRender'
      /\ (lastEvent'.ev = "render" /\ fitToBoundsNextRender /\ mapRef)
           => (lastEvent'.branch = "fitBounds" /\ ~fitToBoundsNextRender')
      /\ (lastEvent'.ev = "render" /\ ~fitToBoundsNextRender)
           => lastEvent'.branch # "fitBounds" ]_vars

\* C8 (as claimed): with no drag in progress and an empty fragment, the box
\* is empty.
C8_EmptyFragmentMeansNoBox ==
  (~isDrawing /\ hash = <<>>) => boundingBox = EmptyBox

\* C8 (amended): with no drag in progress and an empty fragment that the page
\* was loaded with or that a drag end wrote, the box is empty.
C8_EmptyFragmentNotNavigated ==
  (~isDrawing /\ hash = <<>> /\ hashWrittenBy # "navigation") => boundingBox = EmptyBox

\* C8 witness: a drag end wrote the empty fragment, and later events found
\* the box still empty.
C8_Witness ==
  /\ ~isDrawing
  /\ hash = <<>>
  /\ hashWrittenBy = "pushState"
  /\ boundingBox = EmptyBox
  /\ lastEvent.ev = "render"

\* C9: a keydown of r, h or s with no modifier held selects the rectangle
\* tool (cursor crosshair, drag-pan off), selects the hand tool (cursor grab,
\* drag-pan on), or toggles the map style; with a modifier held, or for any
\* other key, nothing changes; no key event changes boundingBox, isDrawing
\* or the fragment.
C9_KeyboardShortcuts ==
  [][ lastEvent'.ev = "keydown" =>
        LET key == lastEvent'.key
            plain == \A m \in ModifierKeys : ~lastEvent'.arg[m]
        IN /\ UNCHANGED <<boundingBox, isDrawing, hash, fitToBoundsNextRender,
                          mapRef, overlay>>
           /\ (key = "r" /\ plain) =>
                /\ activeTool' = "rectangle"
                /\ cursorFor(activeTool') = "crosshair"
                /\ ~dragPanFor(activeTool')
                /\ UNCHANGED mapStyle
           /\ (key = "h" /\ plain) =>
                /\ activeTool' = "hand"
                /\ cursorFor(activeTool') = "grab"
                /\ dragPanFor(activeTool')
                /\ UNCHANGED mapStyle
           /\ (key = "s" /\ plain) =>
                /\ mapStyle' # mapStyle
                /\ mapStyle' \in {"streets", "satellite"}
                /\ UNCHANGED activeTool
           /\ (~plain \/ key \notin {"r", "h", "s"}) =>
                UNCHANGED <<activeTool, mapStyle>> ]_vars

\* C9 witness: r was pressed with no modifier and the rectangle tool is on.
C9_Witness ==
  /\ lastEvent.ev = "keydown"
  /\ lastEvent.key = "r"
  /\ \A m \in ModifierKeys : ~lastEvent.arg[m]
  /\ activeTool = "rectangle"
  /\ cursor = "crosshair"
  /\ ~dragPan

\* C10: handling the same fragment a second time, right after it was handled
\* on load or by a hashchange event, leaves boundingBox as the first
\* handling left it.
C10_ParseIdempotent ==
  [][ (lastEvent.ev \in {"load", "hashchange"}
         /\ lastEvent'.ev = "hashchange"
         /\ hash' = hash)
        => boundingBox' = boundingBox ]_vars

\* C10 witness: a fragment of four numbers was handled twice in succession.
C10_Witness ==
  /\ lastEvent.ev = "hashchange"
  /\ lastEvent.repeat
  /\ lastEvent.branch = "parsed"
  /\ boundingBox = BoxOfFragment(hash)

\* C11 (as claimed): a pointer-up delivered while isDrawing is true leaves
\* isDrawing false, whatever key, tool-button or hashchange events were
\* handled since the pointer-down.
C11_DragEndReturnsToIdle ==
  [][ (lastEvent'.ev = "pointerup" /\ isDrawing) => ~isDrawing' ]_vars

\* C12: a pointer-down at p with the rectangle tool active sets boundingBox
\* to {start: p, end: null} and isDrawing to true, whether or not a drag was
\* in progress, and leaves the URL fragment, activeTool and the fit flag as
\* they were.
C12_StartDrag ==
  [][ (lastEvent'.ev = "pointerdown" /\ activeTool = "rectangle")
        => /\ boundingBox' = [start |-> lastEvent'.arg, end |-> NULL]
           /\ isDrawing'
           /\ hash' = hash
           /\ activeTool' = activeTool
           /\ fitToBoundsNextRender' = fitToBoundsNextRender ]_vars

\* C12 witness: a pointer-down started a drag while another one was in
\* progress, and the box holds the new start only.
C12_Witness ==
  /\ lastEvent.ev = "pointerdown"
  /\ lastEvent.branch = "started"
  /\ lastEvent.repeat
  /\ boundingBox = [start |-> lastEvent.arg, end |-> NULL]
  /\ isDrawing

\* C13: a pointer-move at p while isDrawing is true, the rectangle tool is
\* active and start is set, sets boundingBox.end to p and leaves
\* boundingBox.start, isDrawing, activeTool, the URL fragment and the fit flag
\* as they were; any other pointer-move, and so every pointer-move while
\* isDrawing is false, changes nothing.
C13_DragMove ==
  [][ lastEvent'.ev = "pointermove"
        => IF isDrawing /\ activeTool = "rectangle" /\ boundingBox.start # NULL
           THEN /\ boundingBox'.end = lastEvent'.arg
                /\ boundingBox'.start = boundingBox.start
                /\ UNCHANGED <<isDrawing, activeTool, hash, fitToBoundsNextRender>>
           ELSE UNCHANGED progVars ]_vars

\* C13 witness: a pointer-move of a drag has set end, away from start.
C13_Witness ==
  /\ lastEvent.ev = "pointermove"
  /\ lastEvent.branch = "moved"
  /\ isDrawing
  /\ activeTool = "rectangle"
  /\ boundingBox.end = lastEvent.arg
  /\ boundingBox.start # NULL
  /\ boundingBox.start # boundingBox.end

\* C14: a pointer-up at q handled while drawing, q other than the start
\* held, leaves the box {start: the start held before, end: q}, whatever end
\* the last pointer-move had left, the URL fragment equal to formatBoundingBox
\* of that box, and the fit flag set.
C14_DragEndStoresPointerUp ==
  [][ (DragEnds /\ lastEvent'.arg # boundingBox.start)
        => /\ boundingBox' = [start |-> boundingBox.start, end |-> lastEvent'.arg]
           /\ hash' = formatBoundingBoxDefault(boundingBox'.start, boundingBox'.end)
           /\ fitToBoundsNextRender' ]_vars

\* C14 witness: a drag from (150,-34) was completed by a pointer-up at
\* (150.0000007,-33.9999995); the box holds both and the fragment is its text.
C14_Witness ==
  /\ lastEvent.ev = "pointerup"
  /\ lastEvent.branch = "completed"
  /\ boundingBox = [start |-> <<Deg(150), Deg(-34)>>, end |-> lastEvent.arg]
  /\ lastEvent.arg = <<Deg(150) + 7, Deg(-34) + 5>>
  /\ hash = formatBoundingBoxDefault(boundingBox.start, boundingBox.end)
  /\ fitToBoundsNextRender

\* The ring of a complete box, from its raw corners.
Ring(start, end) ==
  <<start, <<end[1], start[2]>>, end, <<start[1], end[2]>>, start>>

\* The number of times id occurs in the sequence ids.
Occurrences(ids, id) == Cardinality({i \in DOMAIN ids : ids[i] = id})

C16_BoxWellFormed ==
  /\ boundingBox.end # NULL => boundingBox.start # NULL
  /\ isDrawing => boundingBox.start # NULL

\* C16 witness: a fragment was parsed in the middle of a drag: the controller
\* is drawing and holds the start and the end the fragment gave.
C16_Witness ==
  /\ isDrawing
  /\ lastEvent.ev = "hashchange"
  /\ lastEvent.branch = "parsed"
  /\ boundingBox.start # NULL
  /\ boundingBox.end # NULL

\* The text of four numbers joined by the separator s.
JoinedBy(a, b, c, d, s) ==
  formatted(a) \o s \o formatted(b) \o s \o formatted(c) \o s \o formatted(d)

\* C17: for corners start and end and a separator s, formatBoundingBox with
\* order 'latLon' returns minLat, minLon, maxLat, maxLon joined by s, and
\* with order 'lonLat' minLon, minLat, maxLon, maxLat joined by s, whichever
\* corner is start; with the options left out the order is 'lonLat' and the
\* separator ','; when start or end is null the result is the empty string.
C17_AlternateOrdering ==
  lastEvent.ev = "formatBoundingBox" =>
    LET call == lastEvent.arg
        start == call.start
        end == call.end
        minLon == MathMin(start[1], end[1])
        minLat == MathMin(start[2], end[2])
        maxLon == MathMax(start[1], end[1])
        maxLat == MathMax(start[2], end[2])
    IN IF start = NULL \/ end = NULL
       THEN call.text = <<>>
       ELSE IF lastEvent.branch = "defaults"
       THEN call.text = JoinedBy(minLon, minLat, maxLon, maxLat, <<",">>)
       ELSE IF call.order = "latLon"
       THEN call.text = JoinedBy(minLat, minLon, maxLat, maxLon, call.separator)
       ELSE call.text = JoinedBy(minLon, minLat, maxLon, maxLat, call.separator)

\* C17 witness: the box dragged from the northeast corner (151,-33) to the
\* southwest corner (150,-34), with order 'latLon' and separator ', ', gives
\* -34, 150, -33, 151.
C17_Witness ==
  /\ lastEvent.ev = "formatBoundingBox"
  /\ lastEvent.arg.start = <<Deg(151), Deg(-33)>>
  /\ lastEvent.arg.end = <<Deg(150), Deg(-34)>>
  /\ lastEvent.arg.order = "latLon"
  /\ lastEvent.arg.separator = <<",", " ">>
  /\ lastEvent.arg.text = <<"-", "3", "4", ",", " ", "1", "5", "0", ",", " ",
                            "-", "3", "3", ",", " ", "1", "5", "1">>

\* C18: while the hand tool is active no pointer-down, pointer-move or
\* pointer-up changes boundingBox, isDrawing, activeTool, the URL fragment or
\* the fit flag.
C18_HandToolProtectsBox ==
  [][ (lastEvent'.ev \in {"pointerdown", "pointermove", "pointerup"}
         /\ activeTool = "hand")
        => UNCHANGED <<boundingBox, isDrawing, activeTool, hash,
                       fitToBoundsNextRender>> ]_vars

\* C18 witness: the hand tool was selected in the middle of a drag, and a
\* pointer-move was then ignored: the box still has no end.
C18_Witness ==
  /\ lastEvent.ev = "pointermove"
  /\ lastEvent.branch = "ignored"
  /\ activeTool = "hand"
  /\ isDrawing
  /\ boundingBox.start # NULL
  /\ boundingBox.end = NULL

\* C19 (as claimed): no render tick issues a fitBounds command in a state
\* where isDrawing is true.
C19_NoFitWhileDrawing ==
  [][ (lastEvent'.ev = "render" /\ lastEvent'.branch = "fitBounds")
        => ~isDrawing ]_vars

====
